---- MODULE Spec2Model ----
(***************************************************************************)
(* A model of Hypatia's asset loading (hypatia/resources.py,               *)
(* hypatia/filehandlers.py) and of its animated sprites                    *)
(* (hypatia/sprites.py).                                                   *)
(*                                                                         *)
(* Python values are modelled as records tagged by the field t ("bytes",   *)
(* "str", "BytesIO", "ConfigParser", "AnimatedSprite", "None").  Strings   *)
(* the code takes apart (file names, anchor entries) are sequences of      *)
(* one-character strings; strings it only compares are TLA+ strings.  A    *)
(* call that may raise returns [ok |-> TRUE, val |-> v] or                 *)
(* [ok |-> FALSE, err |-> <exception name>].                               *)
(***************************************************************************)
EXTENDS Integers, Sequences, FiniteSets, TLC

VARIABLES
    source,      \* the argument the sprite is constructed from
    sprite,      \* the AnimatedSprite object (None before construction)
    error,       \* the exception that ended the last call, or "none"
    deltas,      \* the values clock.get_time() returned, one per update call
    archive,     \* what is on disk at resources/<category>/<name>[.zip]
    files,       \* Resource.__init__'s dictionary "files"
    visited,     \* the keys the decode loop has visited, in order
    phase,       \* where Resource.__init__ is: "start", "decode", "done", "failed"
    walkabouts,  \* the Walkabout objects constructed, by directory name
    last         \* the last call made on a Walkabout and what it did, in order

vars == <<source, sprite, error, deltas, archive, files, visited, phase,
          walkabouts, last>>

resVars == <<archive, files, visited, phase>>

walkVars == <<walkabouts, last>>

-----------------------------------------------------------------------------
(* Bounds of the model. *)

MaxFrames == 3
MaxDuration == 2
MaxDelta == 3
MaxUpdates == 3
MaxEntries == 3

-----------------------------------------------------------------------------
(* Python built-ins. *)

None == [t |-> "None"]

Ok(v) == [ok |-> TRUE, val |-> v]
Raise(e) == [ok |-> FALSE, err |-> e]

\* list[i] with Python's negative indices; the caller checks PyInRange.
PyInRange(list, i) == i >= 0 - Len(list) /\ i < Len(list)
PyGet(list, i) == IF i < 0 THEN list[Len(list) + i + 1] ELSE list[i + 1]

RECURSIVE SumSeq(_)
SumSeq(s) == IF s = <<>> THEN 0 ELSE Head(s) + SumSeq(Tail(s))

\* The sequences over S of length lo..hi.
RECURSIVE SeqsOfLen(_, _)
SeqsOfLen(S, n) ==
    IF n = 0 THEN {<<>>}
    ELSE {Append(s, x) : s \in SeqsOfLen(S, n - 1), x \in S}
SeqsBetween(S, lo, hi) == UNION {SeqsOfLen(S, n) : n \in lo..hi}

-----------------------------------------------------------------------------
(* Python strings that the code takes apart: sequences of characters. *)

Digits == {"0", "1", "2", "3", "4", "5", "6", "7", "8", "9"}

DigitVal(c) ==
    CASE c = "0" -> 0 [] c = "1" -> 1 [] c = "2" -> 2 [] c = "3" -> 3
      [] c = "4" -> 4 [] c = "5" -> 5 [] c = "6" -> 6 [] c = "7" -> 7
      [] c = "8" -> 8 [] c = "9" -> 9

\* The first position of character c in s, or 0.
RECURSIVE find(_, _, _)
find(s, c, i) ==
    IF i > Len(s) THEN 0
    ELSE IF s[i] = c THEN i
    ELSE find(s, c, i + 1)

\* The last position of character c in s, or 0 (str.rfind, 1-based).
RECURSIVE rfind(_, _, _)
rfind(s, c, i) ==
    IF i < 1 THEN 0
    ELSE IF s[i] = c THEN i
    ELSE rfind(s, c, i - 1)

\* str.split(sep): the pieces between the separators, at least one piece.
RECURSIVE split(_, _)
split(s, sep) ==
    LET i == find(s, sep, 1)
    IN  IF i = 0 THEN <<s>>
        ELSE <<SubSeq(s, 1, i - 1)>> \o split(SubSeq(s, i + 1, Len(s)), sep)

\* str.strip() of blanks.
RECURSIVE strip(_)
strip(s) ==
    IF s = <<>> THEN s
    ELSE IF Head(s) = " " THEN strip(Tail(s))
    ELSE IF s[Len(s)] = " " THEN strip(SubSeq(s, 1, Len(s) - 1))
    ELSE s

RECURSIVE DigitsVal(_)
DigitsVal(s) ==
    IF s = <<>> THEN 0
    ELSE 10 * DigitsVal(SubSeq(s, 1, Len(s) - 1)) + DigitVal(s[Len(s)])

\* int(s): blanks around an optional sign and at least one digit, or ValueError.
int(s) ==
    LET body == strip(s)
        signed == body # <<>> /\ Head(body) \in {"-", "+"}
        digs == IF signed THEN Tail(body) ELSE body
    IN  IF digs = <<>> \/ \E i \in 1..Len(digs) : digs[i] \notin Digits
        THEN Raise("ValueError")
        ELSE Ok(IF signed /\ Head(body) = "-" THEN 0 - DigitsVal(digs)
                ELSE DigitsVal(digs))

\* os.path.splitext(p)[1]: the extension starts at the last dot of the last
\* path component, unless that component has only leading dots before it.
splitext_ext(p) ==
    LET sepIndex == rfind(p, "/", Len(p))
        dotIndex == rfind(p, ".", Len(p))
    IN  IF dotIndex > sepIndex
           /\ \E k \in (sepIndex + 1)..(dotIndex - 1) : p[k] # "."
        THEN SubSeq(p, dotIndex, Len(p))
        ELSE <<>>

\* os.path.splitext(p)[0]
splitext_root(p) == SubSeq(p, 1, Len(p) - Len(splitext_ext(p)))

-----------------------------------------------------------------------------
(* configparser.ConfigParser, as far as the code uses it: readfp, sections,  *)
(* get.  A text is a sequence of lines; a line is a section header, a        *)
(* key = value entry, or something that is neither.                          *)

SectionLine(name) == [k |-> "section", name |-> name]
OptionLine(key, value) == [k |-> "option", key |-> key, value |-> value]
JunkLine == [k |-> "junk"]

EmptyOptions == [x \in {} |-> <<>>]

ConfigParser(names, options) ==
    [t |-> "ConfigParser", section_names |-> names, options |-> options]

\* config.readfp(lines): names holds the sections in order, options their entries.
RECURSIVE readfp(_, _, _)
readfp(lines, names, options) ==
    IF lines = <<>> THEN Ok(ConfigParser(names, options))
    ELSE LET line == Head(lines)
             cur == names[Len(names)]
         IN  CASE line.k = "junk" ->
                    IF names = <<>> THEN Raise("MissingSectionHeaderError")
                    ELSE Raise("ParsingError")
               [] line.k = "section" ->
                    IF line.name \in DOMAIN options
                    THEN Raise("DuplicateSectionError")
                    ELSE readfp(Tail(lines), Append(names, line.name),
                                [s \in DOMAIN options \cup {line.name} |->
                                    IF s = line.name THEN EmptyOptions
                                    ELSE options[s]])
               [] line.k = "option" ->
                    IF names = <<>> THEN Raise("MissingSectionHeaderError")
                    ELSE IF line.key \in DOMAIN options[cur]
                    THEN Raise("DuplicateOptionError")
                    ELSE readfp(Tail(lines), names,
                                [options EXCEPT ![cur] =
                                    [o \in DOMAIN options[cur] \cup {line.key} |->
                                        IF o = line.key THEN line.value
                                        ELSE options[cur][o]]])

\* config.sections()
sections(config) == config.section_names

\* config.get(section, option)
config_get(config, section, option) ==
    IF section \notin DOMAIN config.options THEN Raise("NoSectionError")
    ELSE IF option \notin DOMAIN config.options[section]
    THEN Raise("NoOptionError")
    ELSE Ok(config.options[section][option])

-----------------------------------------------------------------------------
(* hypatia/sprites.py: anchors and frames. *)

Anchor(x, y) == [x |-> x, y |-> y]

Anchor_add(a, other_anchor) == Anchor(a.x + other_anchor.x, a.y + other_anchor.y)

Anchor_sub(a, other_anchor) == Anchor(a.x - other_anchor.x, a.y - other_anchor.y)

as_tuple(a) == <<a.x, a.y>>

\* The loop of LabeledSurfaceAnchors.__init__ over the sections still to read.
RECURSIVE LabeledSurfaceAnchors_loop(_, _, _, _)
LabeledSurfaceAnchors_loop(anchors_config, frame_index, todo, labeled) ==
    IF todo = <<>>
    THEN Ok([t |-> "LabeledSurfaceAnchors", labeled_anchors |-> labeled])
    ELSE LET section == Head(todo)
             anchor_for_frame ==
                 config_get(anchors_config, section, ToString(frame_index))
         IN  IF ~anchor_for_frame.ok THEN Raise(anchor_for_frame.err)
             ELSE LET parts == split(anchor_for_frame.val, ",")
                  IN  IF Len(parts) # 2 THEN Raise("ValueError")
                      ELSE IF ~int(parts[1]).ok \/ ~int(parts[2]).ok
                      THEN Raise("ValueError")
                      ELSE LabeledSurfaceAnchors_loop(
                               anchors_config, frame_index, Tail(todo),
                               [l \in DOMAIN labeled \cup {section} |->
                                   IF l = section
                                   THEN Anchor(int(parts[1]).val, int(parts[2]).val)
                                   ELSE labeled[l]])

\* Anchors read for frame 0 whatever the frame.
LabeledSurfaceAnchors_Frame0(anchors_config, frame_index) ==
    LabeledSurfaceAnchors_loop(anchors_config, 0,
                               sections(anchors_config), EmptyOptions)

LabeledSurfaceAnchors(anchors_config, frame_index) ==
    LabeledSurfaceAnchors_loop(anchors_config, frame_index,
                               sections(anchors_config), EmptyOptions)

\* A lookup that takes a frame without anchors for one with no such label.
anchors_getitem_NoneAsMissing(anchors, label) ==
    IF anchors.t = "None" \/ label \notin DOMAIN anchors.labeled_anchors
    THEN Raise("KeyError")
    ELSE Ok(anchors.labeled_anchors[label])

\* LabeledSurfaceAnchors.__getitem__
anchors_getitem(anchors, label) ==
    IF anchors.t = "None" THEN Raise("TypeError")
    ELSE IF label \notin DOMAIN anchors.labeled_anchors THEN Raise("KeyError")
    ELSE Ok(anchors.labeled_anchors[label])

\* A pygame.Surface: an object of its own (id) with a pixel size.
Surface(id, size) == [id |-> id, size |-> size]

\* A frame whose end_time forgets its start_time.
AnimatedSpriteFrame_EndIsDuration(surface, start_time, duration, anchors) ==
    [surface |-> surface,
     duration |-> duration,
     start_time |-> start_time,
     end_time |-> duration,
     anchors |-> anchors]

AnimatedSpriteFrame(surface, start_time, duration, anchors) ==
    [surface |-> surface,
     duration |-> duration,
     start_time |-> start_time,
     end_time |-> start_time + duration,
     anchors |-> anchors]

-----------------------------------------------------------------------------
(* hypatia/sprites.py: AnimatedSprite. *)

\* AnimatedSprite.total_duration(frames)
total_duration(frames) == SumSeq([i \in 1..Len(frames) |-> frames[i].duration])

\* AnimatedSprite.__init__(frames)
AnimatedSprite(frames) ==
    IF ~PyInRange(frames, 0) THEN Raise("IndexError")
    ELSE Ok([t |-> "AnimatedSprite",
             frames |-> frames,
             total_duration |-> total_duration(frames),
             active_frame_index |-> 0,
             animation_position |-> 0,
             image |-> PyGet(frames, 0).surface,
             rect |-> [topleft |-> <<0, 0>>, size |-> PyGet(frames, 0).surface.size]])

\* The loop of from_surface_duration_list.
RECURSIVE from_surface_duration_list_loop(_, _, _)
from_surface_duration_list_loop(todo, frames, running_time) ==
    IF todo = <<>> THEN frames
    ELSE LET surface == Head(todo)[1]
             duration == Head(todo)[2]
         IN  from_surface_duration_list_loop(
                 Tail(todo),
                 Append(frames,
                        AnimatedSpriteFrame(surface, running_time, duration, None)),
                 running_time + duration)

from_surface_duration_list(surface_duration_list) ==
    AnimatedSprite(from_surface_duration_list_loop(surface_duration_list, <<>>, 0))

\* What PIL reads a GIF as: the frames' durations and the image size.  The
\* surface made of frame i is a new object.
PilGif(size, durations) == [fmt |-> "gif", size |-> size, durations |-> durations]

\* The while True loop of frames_from_gif; seeking past the last frame raises
\* the EOFError that ends it.
RECURSIVE frames_from_gif_loop(_, _, _, _, _)
frames_from_gif_loop(pil_gif, anchors_config, frame_index, frames, time_position) ==
    IF frame_index >= Len(pil_gif.durations) THEN Ok(frames)
    ELSE LET duration == pil_gif.durations[frame_index + 1]
             frame_sprite == Surface(frame_index, pil_gif.size)
             frame_anchors ==
                 IF anchors_config.t # "None"
                 THEN LabeledSurfaceAnchors(anchors_config, frame_index)
                 ELSE Ok(None)
         IN  IF ~frame_anchors.ok THEN Raise(frame_anchors.err)
             ELSE frames_from_gif_loop(
                      pil_gif, anchors_config, frame_index + 1,
                      Append(frames,
                             AnimatedSpriteFrame(frame_sprite, time_position,
                                                 duration, frame_anchors.val)),
                      time_position + duration)

\* Image.open on data that is no image raises IOError.
frames_from_gif(path_or_readable, anchors_config) ==
    IF path_or_readable.fmt # "gif" THEN Raise("IOError")
    ELSE frames_from_gif_loop(path_or_readable, anchors_config, 0, <<>>, 0)

from_file(path_or_readable, anchors_config) ==
    LET frames == frames_from_gif(path_or_readable, anchors_config)
    IN  IF ~frames.ok THEN Raise(frames.err) ELSE AnimatedSprite(frames.val)

active_frame(self) == PyGet(self.frames, self.active_frame_index)

\* An advance loop that also leaves a frame when the position is on its
\* end_time.
RECURSIVE update_advance_LeavesAtEndTime(_, _, _)
update_advance_LeavesAtEndTime(frames, animation_position, active_frame_index) ==
    IF ~PyInRange(frames, active_frame_index) THEN 0 - 1
    ELSE IF animation_position >= PyGet(frames, active_frame_index).end_time
    THEN update_advance_LeavesAtEndTime(frames, animation_position,
                                        active_frame_index + 1)
    ELSE active_frame_index

\* The while loop of update: the index it stops at, or -1 when
\* frames[active_frame_index] raises IndexError.
RECURSIVE update_advance(_, _, _)
update_advance(frames, animation_position, active_frame_index) ==
    IF ~PyInRange(frames, active_frame_index) THEN 0 - 1
    ELSE IF animation_position > PyGet(frames, active_frame_index).end_time
    THEN update_advance(frames, animation_position, active_frame_index + 1)
    ELSE active_frame_index

\* A wrap test that lets the position rest on total_duration.
update_wraps_Strict(animation_position, total) == animation_position > total

\* Whether update takes its wrap branch at this position.
update_wraps(animation_position, total) == animation_position >= total

\* The surface update stores in image.
update_image(frames, active_frame_index) ==
    PyGet(frames, active_frame_index - 1).surface

\* AnimatedSprite.update with clock.get_time() = time: the sprite afterwards
\* and the exception raised, if any.
update(self, time) ==
    LET position == self.animation_position + time
        wraps == update_wraps(position, self.total_duration)
    IN  IF wraps /\ self.total_duration = 0
        THEN [self |-> [self EXCEPT !.animation_position = position],
              err |-> "ZeroDivisionError"]
        ELSE
        LET wrapped == IF wraps THEN position % self.total_duration ELSE position
            start == IF wraps THEN 0 ELSE self.active_frame_index
            index == update_advance(self.frames, wrapped, start)
        IN  IF index < 0
            THEN [self |-> [self EXCEPT !.animation_position = wrapped,
                                        !.active_frame_index = Len(self.frames)],
                  err |-> "IndexError"]
            ELSE [self |-> [self EXCEPT
                               !.animation_position = wrapped,
                               !.active_frame_index = index,
                               !.image = update_image(self.frames, index),
                               !.rect = [topleft |-> <<0, 0>>,
                                         size |-> update_image(self.frames, index).size]],
                  err |-> "none"]

-----------------------------------------------------------------------------
(* hypatia/filehandlers.py.  Raw file data is [t |-> "bytes", data |-> d],   *)
(* where d says what the bytes hold: a GIF (PilGif), a UTF-8 text            *)
(* ([fmt |-> "text", lines |-> ...]) or anything else ([fmt |-> "binary"]).  *)

Bytes(data) == [t |-> "bytes", data |-> data]

TextData(lines) == [fmt |-> "text", lines |-> lines]

BinaryData == [fmt |-> "binary"]

\* bytes.decode('utf-8'); an object without decode raises AttributeError.
decode_utf8(file_data) ==
    IF file_data.t # "bytes" THEN Raise("AttributeError")
    ELSE IF file_data.data.fmt # "text" THEN Raise("UnicodeDecodeError")
    ELSE Ok([t |-> "str", lines |-> file_data.data.lines])

load_png(fs, file_name) ==
    IF fs[file_name].t # "bytes" THEN Raise("TypeError")
    ELSE Ok([t |-> "BytesIO", data |-> fs[file_name].data])

load_txt(fs, file_name) == decode_utf8(fs[file_name])

load_ini(fs, file_name) ==
    LET file_data == decode_utf8(fs[file_name])
    IN  IF ~file_data.ok THEN Raise(file_data.err)
        ELSE readfp(file_data.val.lines, <<>>, EmptyOptions)

Ext_ini == <<".", "i", "n", "i">>
Ext_gif == <<".", "g", "i", "f">>
Ext_png == <<".", "p", "n", "g">>
Ext_txt == <<".", "t", "x", "t">>

\* A sidecar lookup that takes only an entry already decoded.
load_gif_anchor_config_NoFallback(fs, file_name) ==
    LET anchor_ini_name == splitext_root(file_name) \o Ext_ini
    IN  IF anchor_ini_name \notin DOMAIN fs THEN Ok(None)
        ELSE IF fs[anchor_ini_name].t = "ConfigParser"
        THEN Ok(fs[anchor_ini_name])
        ELSE Ok(None)

\* The sidecar of load_gif: None when the map has no <name>.ini, the entry
\* itself when it already has sections(), otherwise load_ini of it.
load_gif_anchor_config(fs, file_name) ==
    LET gif_name_no_ext == splitext_root(file_name)
        anchor_ini_name == gif_name_no_ext \o Ext_ini
    IN  IF anchor_ini_name \notin DOMAIN fs THEN Ok(None)
        ELSE IF fs[anchor_ini_name].t = "ConfigParser"
        THEN Ok(fs[anchor_ini_name])
        ELSE load_ini(fs, anchor_ini_name)

load_gif(fs, file_name) ==
    LET file_data == fs[file_name]
        anchor_config_ini == load_gif_anchor_config(fs, file_name)
    IN  IF file_data.t # "bytes" THEN Raise("TypeError")
        ELSE IF ~anchor_config_ini.ok THEN Raise(anchor_config_ini.err)
        ELSE from_file(file_data.data, anchor_config_ini.val)

-----------------------------------------------------------------------------
(* hypatia/resources.py: Resource. *)

\* A table that hands .txt files to the .png handler.
FROM_EXTENSION_TxtAsPng ==
    [e \in {Ext_ini, Ext_gif, Ext_png, Ext_txt} |->
        CASE e = Ext_ini -> "load_ini"
          [] e = Ext_gif -> "load_gif"
          [] e = Ext_png -> "load_png"
          [] e = Ext_txt -> "load_png"]

FROM_EXTENSION ==
    [e \in {Ext_ini, Ext_gif, Ext_png, Ext_txt} |->
        CASE e = Ext_ini -> "load_ini"
          [] e = Ext_gif -> "load_gif"
          [] e = Ext_png -> "load_png"
          [] e = Ext_txt -> "load_txt"]

\* file_handler(files, file_name)
file_handler(handler, fs, file_name) ==
    CASE handler = "load_ini" -> load_ini(fs, file_name)
      [] handler = "load_gif" -> load_gif(fs, file_name)
      [] handler = "load_png" -> load_png(fs, file_name)
      [] handler = "load_txt" -> load_txt(fs, file_name)

\* The body of the decode loop for one file_name: the new file_data.
prepare(fs, file_name) ==
    LET file_data == fs[file_name]
        file_extension == splitext_ext(file_name)
    IN  IF file_extension \in DOMAIN FROM_EXTENSION
        THEN file_handler(FROM_EXTENSION[file_extension], fs, file_name)
        ELSE Ok(file_data)

\* The names the zip branch keeps of zip_file.namelist().
zip_kept(names) == {file_name \in names : file_name # <<>>}

-----------------------------------------------------------------------------
(* The sprite on its own: it is constructed from a surface/duration list or  *)
(* from a GIF, and then updated once per tick.                               *)

Durations == 0..MaxDuration

\* The surface at position i of a surface/duration list.
ListSurface(i) == Surface(i, <<i + 1, 2>>)

SurfaceDurationList(durations) ==
    [i \in 1..Len(durations) |-> <<ListSurface(i - 1), durations[i]>>]

\* A sidecar with the head anchor of frames 0 and 1.
HeadAnchorText ==
    <<SectionLine("head_anchor"),
      OptionLine("0", <<"1", ",", "2">>),
      OptionLine("1", <<"3", ",", "4">>)>>

HeadAnchorConfig == readfp(HeadAnchorText, <<>>, EmptyOptions).val

Sources ==
    {[kind |-> "surface_duration_list", items |-> SurfaceDurationList(d)] :
        d \in SeqsBetween(Durations, 0, MaxFrames)}
    \cup
    {[kind |-> "gif", gif |-> PilGif(<<6, 8>>, d), anchors_config |-> c] :
        d \in SeqsBetween(Durations, 1, MaxFrames),
        c \in {None, HeadAnchorConfig}}

\* The two-frame sprite of the boundary scenario and the ticks it is driven by.
BoundarySource ==
    [kind |-> "surface_duration_list",
     items |-> SurfaceDurationList(<<100, 150>>)]

BoundaryDeltas == {0, 2, 99, 150, 250}

NoArchive == [container |-> "none", entries |-> <<>>]

NoCall == [name |-> "none", calls |-> 0]

WalkIdle ==
    /\ walkabouts = <<>>
    /\ last = NoCall

ResourceIdle ==
    /\ archive = NoArchive
    /\ files = <<>>
    /\ visited = <<>>
    /\ phase = "idle"

InitSprite ==
    /\ source \in Sources
    /\ sprite = None
    /\ error = "none"
    /\ deltas = <<>>
    /\ ResourceIdle
    /\ WalkIdle

InitBoundary ==
    /\ source = BoundarySource
    /\ sprite = None
    /\ error = "none"
    /\ deltas = <<>>
    /\ ResourceIdle
    /\ WalkIdle

Constructed(r) ==
    /\ sprite' = (IF r.ok THEN r.val ELSE None)
    /\ error' = (IF r.ok THEN "none" ELSE r.err)
    /\ UNCHANGED <<source, deltas, resVars, walkVars>>

ConstructFromList ==
    /\ sprite = None /\ error = "none"
    /\ source.kind = "surface_duration_list"
    /\ Constructed(from_surface_duration_list(source.items))

ConstructFromFile ==
    /\ sprite = None /\ error = "none"
    /\ source.kind = "gif"
    /\ Constructed(from_file(source.gif, source.anchors_config))

\* One call of sprite.update(clock, ...) with clock.get_time() = time.
Update(time) ==
    /\ sprite # None /\ error = "none"
    /\ Len(deltas) < MaxUpdates
    /\ sprite' = update(sprite, time).self
    /\ error' = update(sprite, time).err
    /\ deltas' = Append(deltas, time)
    /\ UNCHANGED <<source, resVars, walkVars>>

Tick == \E time \in 0..MaxDelta : Update(time)

TickAny == \E time \in (0 - MaxDelta)..MaxDelta : Update(time)

TickBoundary == \E time \in BoundaryDeltas : Update(time)

Next == ConstructFromList \/ ConstructFromFile \/ Tick

NextAny == ConstructFromList \/ ConstructFromFile \/ TickAny

NextBoundary == ConstructFromList \/ TickBoundary

Spec == InitSprite /\ [][Next]_vars

SpecAnyDelta == InitSprite /\ [][NextAny]_vars

SpecBoundary == InitBoundary /\ [][NextBoundary]_vars

-----------------------------------------------------------------------------
(* Claims about the sprite's cursor and timeline. *)

Live == sprite # None /\ error = "none"

FrameSurface(i) == PyGet(sprite.frames, i).surface

LastDelta == deltas[Len(deltas)]

\* The first frame whose end_time the position has not passed.
FirstFrameAt(frames, position) ==
    CHOOSE i \in 0..(Len(frames) - 1) :
        /\ position <= PyGet(frames, i).end_time
        /\ \A j \in 0..(i - 1) : position > PyGet(frames, j).end_time

\* C1: with frames of 100 and 150 ms, the image after a tick of 99 is frame 0's
\* surface, after 2 more it is frame 1's, and after 150 more the position is 1
\* and the image is frame 0's again.
C1_BoundaryScenario ==
    Live =>
        /\ deltas = <<99>> => sprite.image = FrameSurface(0)
        /\ deltas = <<99, 2>> => sprite.image = FrameSurface(1)
        /\ deltas = <<99, 2, 150>> =>
               sprite.animation_position = 1 /\ sprite.image = FrameSurface(0)

\* C2: after updates whose deltas sum to exactly total_duration (> 0), the
\* image is again the surface of frames[0].
C2_FullCycleShowsFirstFrame ==
    (/\ Live
     /\ deltas # <<>>
     /\ sprite.total_duration > 0
     /\ SumSeq(deltas) = sprite.total_duration)
    => sprite.image = FrameSurface(0)

\* The position is in 0..total_duration-1 and is the sum of the deltas modulo
\* total_duration.
C3_PositionState ==
    (Live /\ sprite.total_duration > 0) =>
        /\ 0 <= sprite.animation_position
        /\ sprite.animation_position < sprite.total_duration
        /\ sprite.animation_position = SumSeq(deltas) % sprite.total_duration

\* An update whose position reaches total_duration restarts the index from
\* frame 0; no other update lowers the index.
C3_ResetStep ==
    (/\ Live
     /\ sprite.total_duration > 0
     /\ deltas' # deltas)
    => LET reached == sprite.animation_position + deltas'[Len(deltas')]
                          >= sprite.total_duration
       IN  /\ reached => sprite'.active_frame_index =
                  FirstFrameAt(sprite'.frames, sprite'.animation_position)
           /\ ~reached => sprite'.active_frame_index >= sprite.active_frame_index

\* C3: with total_duration > 0 and non-negative deltas, animation_position
\* stays in 0..total_duration-1 and is the sum of the deltas modulo
\* total_duration; the index is reset to 0 (and advanced from there) in the
\* updates whose position reaches or passes total_duration, and in no other.
C3_PositionModuloTotal == [](C3_PositionState) /\ [][C3_ResetStep]_vars

C3_Witness ==
    /\ Live
    /\ Len(deltas) >= 2
    /\ sprite.total_duration > 0
    /\ SumSeq(deltas) > sprite.total_duration
    /\ LastDelta > 0
    /\ sprite.animation_position = SumSeq(deltas) % sprite.total_duration
    /\ sprite.active_frame_index > 0

\* The frames start at 0, each starts where the one before ends, and
\* total_duration is the sum of the durations and the last end_time.
TimelineContiguous(s) ==
    /\ s.frames[1].start_time = 0
    /\ \A i \in 1..Len(s.frames) :
           s.frames[i].end_time = s.frames[i].start_time + s.frames[i].duration
    /\ \A i \in 1..(Len(s.frames) - 1) :
           s.frames[i + 1].start_time = s.frames[i].end_time
    /\ s.total_duration = SumSeq([i \in 1..Len(s.frames) |-> s.frames[i].duration])
    /\ s.total_duration = s.frames[Len(s.frames)].end_time

\* C4 as stated: the timeline of every constructed sprite is contiguous from 0
\* and its end_time sequence is strictly increasing.
C4_TimelineStrictlyIncreasing ==
    sprite # None =>
        /\ TimelineContiguous(sprite)
        /\ \A i \in 1..(Len(sprite.frames) - 1) :
               sprite.frames[i].end_time < sprite.frames[i + 1].end_time

\* C4, amended: the timeline of every constructed sprite is contiguous from 0;
\* its end_time sequence never decreases, and rises from one frame to the next
\* exactly when the next frame's duration is positive.
C4_TimelineContiguous ==
    sprite # None =>
        /\ TimelineContiguous(sprite)
        /\ \A i \in 1..(Len(sprite.frames) - 1) :
               /\ sprite.frames[i].end_time <= sprite.frames[i + 1].end_time
               /\ sprite.frames[i].end_time < sprite.frames[i + 1].end_time
                      <=> sprite.frames[i + 1].duration > 0

C4_Witness ==
    /\ sprite # None
    /\ source.kind = "gif"
    /\ Len(sprite.frames) >= 2
    /\ sprite.frames[1].duration > 0
    /\ sprite.frames[2].duration = 0
    /\ sprite.frames[2].start_time > 0

\* What the claim says of one update call.
C5_Step ==
    (Live /\ deltas' # deltas) =>
        LET time == deltas'[Len(deltas')]
        IN  /\ time < 0 =>
                /\ error' = "InvalidArgument"
                /\ sprite'.animation_position = sprite.animation_position
                /\ sprite'.active_frame_index = sprite.active_frame_index
                /\ sprite'.image = sprite.image
            /\ (time >= 0 /\ sprite.total_duration > 0) => error' = "none"

\* C5: an update with a negative delta ends with InvalidArgument and leaves
\* animation_position, active_frame_index and image as they were; an update
\* with a non-negative delta on a sprite with total_duration > 0 does not fail.
C5_NegativeDeltaRejected == [][C5_Step]_vars

\* C6: no sprite with total_duration 0 is ever constructed, and update never
\* divides by zero.
C6_NoZeroDurationSprite ==
    /\ sprite # None => sprite.total_duration > 0
    /\ error # "ZeroDivisionError"

-----------------------------------------------------------------------------
(* Loading a Resource: what may be on disk, and Resource.__init__ step by    *)
(* step (reading the container, then one loop iteration per key, in any      *)
(* order: a dictionary's key order is not fixed).                            *)

N_a_gif == <<"a">> \o Ext_gif
N_a_ini == <<"a">> \o Ext_ini
N_a_GIF == <<"a", ".", "G", "I", "F">>
N_n_txt == <<"n">> \o Ext_txt
N_m_Txt == <<"m", ".", "T", "x", "t">>
N_p_png == <<"p">> \o Ext_png
N_x_dat == <<"x", ".", "d", "a", "t">>
N_d == <<"d">>
N_d_slash == <<"d", "/">>
N_d_a_gif == <<"d", "/", "a">> \o Ext_gif
N_d_a_ini == <<"d", "/", "a">> \o Ext_ini

Gif1 == Bytes(PilGif(<<4, 4>>, <<2>>))
Gif2 == Bytes(PilGif(<<6, 8>>, <<1, 2>>))

\* Two sections, with blanks and a sign in the entries.
TwoAnchorText ==
    <<SectionLine("head_anchor"),
      OptionLine("0", <<"1", ",", "2">>),
      OptionLine("1", <<"3", ",", "4">>),
      SectionLine("foot_anchor"),
      OptionLine("0", <<" ", "5", ",", " ", "6">>),
      OptionLine("1", <<"-", "1", ",", "0">>)>>

\* No entry for frame 1.
ShortAnchorText ==
    <<SectionLine("head_anchor"), OptionLine("0", <<"1", ",", "2">>)>>

\* Entries that are no "x,y" integer pair.
WordAnchorText ==
    <<SectionLine("head_anchor"),
      OptionLine("0", <<"1", ",", "2">>),
      OptionLine("1", <<"x", ",", "2">>)>>

TripleAnchorText ==
    <<SectionLine("head_anchor"),
      OptionLine("0", <<"1", ",", "2", ",", "3">>),
      OptionLine("1", <<"3", ",", "4">>)>>

IniTexts ==
    {HeadAnchorText, TwoAnchorText, ShortAnchorText, WordAnchorText,
     TripleAnchorText, <<>>, <<JunkLine>>}

IniPayloads == {Bytes(TextData(l)) : l \in IniTexts} \cup {Bytes(BinaryData)}

Directory == [t |-> "directory"]

\* The entries a container may hold: <<name, data>>.  A zip lists its
\* directories as names ending in "/", with no data; os.listdir names the
\* subdirectories like the files.
ZipCandidates ==
    ({N_a_gif} \X {Gif1, Gif2, Bytes(BinaryData)})
    \cup ({N_a_ini} \X IniPayloads)
    \cup ({N_d_a_ini} \X {Bytes(TextData(HeadAnchorText))})
    \cup {<<N_a_GIF, Gif2>>, <<N_d_a_gif, Gif2>>,
          <<N_n_txt, Bytes(TextData(<<JunkLine>>))>>,
          <<N_n_txt, Bytes(BinaryData)>>,
          <<N_m_Txt, Bytes(TextData(<<JunkLine>>))>>,
          <<N_p_png, Bytes(BinaryData)>>,
          <<N_x_dat, Bytes(BinaryData)>>,
          <<N_d_slash, Bytes(TextData(<<>>))>>}

DirCandidates ==
    {c \in ZipCandidates : find(c[1], "/", 1) = 0} \cup {<<N_d, Directory>>}

\* The maps over the names S that give each name one of its candidate data.
RECURSIVE EntryMaps(_, _)
EntryMaps(candidates, S) ==
    IF S = {} THEN {<<>>}
    ELSE LET n == CHOOSE n \in S : TRUE
         IN  {[k \in S |-> IF k = n THEN c[2] ELSE f[k]] :
                 f \in EntryMaps(candidates, S \ {n}),
                 c \in {c \in candidates : c[1] = n}}

Containers(kind, candidates) ==
    {[container |-> kind, entries |-> f] :
        f \in UNION {EntryMaps(candidates, S) :
                        S \in {S \in SUBSET {c[1] : c \in candidates} :
                                  Cardinality(S) <= MaxEntries}}}

Archives ==
    Containers("zip", ZipCandidates) \cup Containers("dir", DirCandidates)
    \cup {NoArchive}

InitResource ==
    /\ archive \in Archives
    /\ files = <<>>
    /\ visited = <<>>
    /\ phase = "start"
    /\ source = [kind |-> "none"]
    /\ sprite = None
    /\ error = "none"
    /\ deltas = <<>>
    /\ WalkIdle

Range(seq) == {seq[i] : i \in 1..Len(seq)}

\* os.path.isdir(path): every file of the directory is read; opening a
\* subdirectory raises IOError.
ReadDirectory ==
    /\ phase = "start"
    /\ archive.container = "dir"
    /\ IF \E n \in DOMAIN archive.entries : archive.entries[n].t = "directory"
       THEN /\ phase' = "failed"
            /\ error' = "IOError"
            /\ files' = files
       ELSE /\ phase' = "decode"
            /\ error' = error
            /\ files' = archive.entries
    /\ UNCHANGED <<source, sprite, deltas, archive, visited, walkVars>>

\* No directory: the zip's names are read, the empty name skipped.
ReadZip ==
    /\ phase = "start"
    /\ archive.container = "zip"
    /\ phase' = "decode"
    /\ files' = [file_name \in zip_kept(DOMAIN archive.entries) |->
                    archive.entries[file_name]]
    /\ UNCHANGED <<source, sprite, error, deltas, archive, visited, walkVars>>

\* Neither a directory nor a zip: zipfile.ZipFile raises IOError.
OpenFails ==
    /\ phase = "start"
    /\ archive.container = "none"
    /\ phase' = "failed"
    /\ error' = "IOError"
    /\ UNCHANGED <<source, sprite, deltas, archive, files, visited, walkVars>>

\* One iteration of "for file_name in files.keys()".
DecodeEntry(file_name) ==
    /\ phase = "decode"
    /\ file_name \in DOMAIN files \ Range(visited)
    /\ visited' = Append(visited, file_name)
    /\ IF prepare(files, file_name).ok
       THEN /\ files' = [files EXCEPT ![file_name] = prepare(files, file_name).val]
            /\ UNCHANGED <<phase, error>>
       ELSE /\ phase' = "failed"
            /\ error' = prepare(files, file_name).err
            /\ files' = files
    /\ UNCHANGED <<source, sprite, deltas, archive, walkVars>>

DecodeAny == \E file_name \in DOMAIN files : DecodeEntry(file_name)

\* The loop is over: self.files = files.
Finish ==
    /\ phase = "decode"
    /\ DOMAIN files = Range(visited)
    /\ phase' = "done"
    /\ UNCHANGED <<source, sprite, error, deltas, archive, files, visited, walkVars>>

NextResource == ReadDirectory \/ ReadZip \/ OpenFails \/ DecodeAny \/ Finish

SpecResource == InitResource /\ [][NextResource]_vars

-----------------------------------------------------------------------------
(* Claims about Resource.__init__ and the GIF decoder. *)

\* The raw asset map the decode pass starts from.
RawMap == archive.entries

Decoding == phase \in {"decode", "done"} \/ (phase = "failed" /\ visited # <<>>)

\* The key whose handler raised.
FailedKey == visited[Len(visited)]

SidecarOf(file_name) == splitext_root(file_name) \o Ext_ini

\* Every entry visited holds what its handler yields on the all-raw map, every
\* other entry its raw bytes; a load fails only on a key whose handler fails on
\* the all-raw map.
C7_Outcome ==
    Decoding =>
        /\ DOMAIN files = DOMAIN RawMap
        /\ \A k \in DOMAIN files :
               IF k \in Range(visited) /\ ~(phase = "failed" /\ k = FailedKey)
               THEN /\ prepare(RawMap, k).ok
                    /\ files[k] = prepare(RawMap, k).val
               ELSE files[k] = RawMap[k]
        /\ phase = "failed" => ~prepare(RawMap, FailedKey).ok

\* A .gif is never decoded into a sprite while its sidecar entry is already
\* decoded.
C7_ReadsRawSidecar ==
    \A k \in DOMAIN files :
        (/\ visited' = Append(visited, k)
         /\ splitext_ext(k) = Ext_gif
         /\ files'[k].t = "AnimatedSprite"
         /\ SidecarOf(k) \in DOMAIN files)
        => files[SidecarOf(k)].t = "bytes"

LowerChar(c) ==
    CASE c = "G" -> "g" [] c = "I" -> "i" [] c = "F" -> "f" [] c = "T" -> "t"
      [] OTHER -> c

Lower(str) == [i \in 1..Len(str) |-> LowerChar(str[i])]

\* What the decoder of an extension makes of raw data: its kind and, for the
\* decoders that keep the payload, the payload.
DecodedAs(extension, decoded, raw_data) ==
    CASE extension = Ext_ini -> decoded.t = "ConfigParser"
      [] extension = Ext_gif -> decoded.t = "AnimatedSprite"
      [] extension = Ext_png -> decoded.t = "BytesIO" /\ decoded.data = raw_data.data
      [] extension = Ext_txt -> decoded.t = "str" /\ decoded.lines = raw_data.data.lines

DecoderExtensions == {Ext_ini, Ext_gif, Ext_png, Ext_txt}

\* C8 as stated: after the load every entry is decoded by the decoder of the
\* lowercase form of its extension, the others are raw, the keys are unchanged.
C8_DispatchByLowercaseExtension ==
    phase = "done" =>
        /\ DOMAIN files = DOMAIN RawMap
        /\ \A k \in DOMAIN files :
               IF Lower(splitext_ext(k)) \in DecoderExtensions
               THEN DecodedAs(Lower(splitext_ext(k)), files[k], RawMap[k])
               ELSE files[k] = RawMap[k]

\* C8, amended: after the load every entry whose extension, as spelled, is one
\* of .ini .gif .png .txt is decoded by that extension's decoder; every other
\* entry (X.GIF and X.Txt among them) holds its raw bytes; the keys are unchanged.
C8_DispatchByExactExtension ==
    phase = "done" =>
        /\ DOMAIN files = DOMAIN RawMap
        /\ \A k \in DOMAIN files :
               IF splitext_ext(k) \in DecoderExtensions
               THEN DecodedAs(splitext_ext(k), files[k], RawMap[k])
               ELSE files[k] = RawMap[k]

C8_Witness ==
    /\ phase = "done"
    /\ {N_a_gif, N_a_GIF, N_m_Txt} \subseteq DOMAIN files
    /\ files[N_a_gif].t = "AnimatedSprite"
    /\ files[N_a_GIF] = Gif2
    /\ files[N_m_Txt].t = "bytes"

IsDirectoryEntry(name) == name # <<>> /\ name[Len(name)] = "/"

\* C9: loaded from a zip, the raw map has one key per entry of the archive that
\* is no directory, and no directory entry is a key.
C9_ZipKeysAreFileEntries ==
    (archive.container = "zip" /\ phase \in {"decode", "done"}) =>
        DOMAIN files = {n \in DOMAIN archive.entries : ~IsDirectoryEntry(n)}

\* The sections of a sidecar text, and the entries of one section under a key.
SectionNames(lines) ==
    {lines[j].name : j \in {j \in 1..Len(lines) : lines[j].k = "section"}}

SectionOfLine(lines, j) ==
    LET before == {i \in 1..j : lines[i].k = "section"}
    IN  lines[CHOOSE i \in before : \A h \in before : h <= i].name

EntriesOf(lines, section, key) ==
    {lines[j].value :
        j \in {j \in 1..Len(lines) :
                  /\ lines[j].k = "option"
                  /\ lines[j].key = key
                  /\ SectionOfLine(lines, j) = section}}

WellFormed(lines) ==
    /\ \A j \in 1..Len(lines) : lines[j].k \in {"section", "option"}
    /\ lines # <<>> => lines[1].k = "section"

\* What the entries of the sidecars above mean as "x,y" pairs; << >> for one
\* that is no pair of integers.
PairMeaning(value) ==
    CASE value = <<"1", ",", "2">> -> <<1, 2>>
      [] value = <<"3", ",", "4">> -> <<3, 4>>
      [] value = <<" ", "5", ",", " ", "6">> -> <<5, 6>>
      [] value = <<"-", "1", ",", "0">> -> <<0 - 1, 0>>
      [] OTHER -> <<>>

\* Every frame of the GIF has, in every section, one entry that is a pair.
SidecarCovers(lines, n_frames) ==
    \A section \in SectionNames(lines), i \in 0..(n_frames - 1) :
        \E value \in EntriesOf(lines, section, ToString(i)) :
            /\ EntriesOf(lines, section, ToString(i)) = {value}
            /\ PairMeaning(value) # <<>>

AnchorsFromSidecar(sprite_, lines) ==
    \A i \in 0..(Len(sprite_.frames) - 1) :
        /\ sprite_.frames[i + 1].anchors.t = "LabeledSurfaceAnchors"
        /\ DOMAIN sprite_.frames[i + 1].anchors.labeled_anchors = SectionNames(lines)
        /\ \A section \in SectionNames(lines) :
               LET pair == PairMeaning(CHOOSE v \in EntriesOf(lines, section, ToString(i)) : TRUE)
               IN  sprite_.frames[i + 1].anchors.labeled_anchors[section]
                       = Anchor(pair[1], pair[2])

-----------------------------------------------------------------------------
(* Resource.__init__ and Resource.get_type as one call, for the callers of   *)
(* Resource.  "order" is the order in which the dictionary yields its keys.  *)

\* All the orders of the elements of S.
RECURSIVE Perms(_)
Perms(S) ==
    IF S = {} THEN {<<>>}
    ELSE UNION {{<<x>> \o p : p \in Perms(S \ {x})} : x \in S}

\* Step 1 of Resource.__init__: the raw files of the directory, else of the zip.
Resource_read(arch) ==
    CASE arch.container = "dir" ->
            IF \E n \in DOMAIN arch.entries : arch.entries[n].t = "directory"
            THEN Raise("IOError")
            ELSE Ok(arch.entries)
      [] arch.container = "zip" ->
            Ok([file_name \in zip_kept(DOMAIN arch.entries) |->
                   arch.entries[file_name]])
      [] OTHER -> Raise("IOError")

\* Step 2 of Resource.__init__: the loop "for file_name in files.keys()".
RECURSIVE Resource_prepare(_, _)
Resource_prepare(fs, todo) ==
    IF todo = <<>> THEN Ok(fs)
    ELSE LET file_name == Head(todo)
             file_data == prepare(fs, file_name)
         IN  IF ~file_data.ok THEN Raise(file_data.err)
             ELSE Resource_prepare([fs EXCEPT ![file_name] = file_data.val],
                                   Tail(todo))

\* Resource(resource_category, resource_name).files
Resource(arch, order) ==
    LET raw == Resource_read(arch)
    IN  IF ~raw.ok THEN Raise(raw.err)
        ELSE Resource_prepare(raw.val, order)

\* The keys of the dictionary Resource.__init__ builds from the container.
ResourceKeys(arch) ==
    IF Resource_read(arch).ok THEN DOMAIN Resource_read(arch).val ELSE {}

\* Resource.get_type(file_extension): the matching files, or None.
get_type(fs, file_extension) ==
    LET matching == {file_name \in DOMAIN fs :
                        splitext_ext(file_name) = file_extension}
    IN  IF matching = {} THEN None
        ELSE [t |-> "dict", items |-> [file_name \in matching |-> fs[file_name]]]

-----------------------------------------------------------------------------
(* hypatia/constants.py: the enumerations Action and Direction, and the      *)
(* names getattr finds their members by.                                     *)

Action == [stand |-> <<"s", "t", "a", "n", "d">>, walk |-> <<"w", "a", "l", "k">>]

Direction == [north |-> <<"n", "o", "r", "t", "h">>,
              south |-> <<"s", "o", "u", "t", "h">>,
              east |-> <<"e", "a", "s", "t">>,
              west |-> <<"w", "e", "s", "t">>]

\* The file name that stands for (stand, south).
T_only == <<"o", "n", "l", "y">>

\* getattr(enumeration, name)
getattr(enumeration, name) ==
    IF \E member \in DOMAIN enumeration : enumeration[member] = name
    THEN Ok(CHOOSE member \in DOMAIN enumeration : enumeration[member] = name)
    ELSE Raise("AttributeError")

-----------------------------------------------------------------------------
(* hypatia/sprites.py: Walkabout.  An animation of the grid is the object    *)
(* the resource holds under its file name, so the grid holds file names.     *)

\* os.path.split(p)[1]
basename(p) == SubSeq(p, rfind(p, "/", Len(p)) + 1, Len(p))

\* str.split(sep, 1)
split_once(s, sep) ==
    LET i == find(s, sep, 1)
    IN  IF i = 0 THEN <<s>>
        ELSE <<SubSeq(s, 1, i - 1), SubSeq(s, i + 1, Len(s))>>

\* A store that keeps the value a key already has.
dict_set_KeepsOld(d, k, v) ==
    [x \in DOMAIN d \cup {k} |-> IF x \in DOMAIN d THEN d[x] ELSE v]

\* d[k] = v on a dictionary
dict_set(d, k, v) == [x \in DOMAIN d \cup {k} |-> IF x = k THEN v ELSE d[x]]

RECURSIVE largest_frame_size_loop(_, _)
largest_frame_size_loop(frames, largest_frame_size_) ==
    IF frames = <<>> THEN largest_frame_size_
    ELSE LET largest_area == largest_frame_size_[1] * largest_frame_size_[2]
             frame_size == Head(frames).surface.size
             frame_area == frame_size[1] * frame_size[2]
         IN  largest_frame_size_loop(
                 Tail(frames),
                 IF frame_area > largest_area THEN frame_size
                 ELSE largest_frame_size_)

\* AnimatedSprite.largest_frame_size()
largest_frame_size(self) == largest_frame_size_loop(self.frames, <<0, 0>>)

\* A reading that takes a name without an underscore for "only".
Walkabout_parse_DefaultsToOnly(sprite_path) ==
    LET file_name == basename(splitext_root(sprite_path))
        parts == split_once(file_name, "_")
    IN  IF file_name = T_only \/ Len(parts) # 2
        THEN Ok([action |-> "stand", direction |-> "south"])
        ELSE IF ~getattr(Direction, parts[2]).ok THEN Raise("AttributeError")
        ELSE IF ~getattr(Action, parts[1]).ok THEN Raise("AttributeError")
        ELSE Ok([action |-> getattr(Action, parts[1]).val,
                 direction |-> getattr(Direction, parts[2]).val])

\* The action and direction Walkabout.__init__ reads in a sprite path.
Walkabout_parse(sprite_path) ==
    LET file_name == basename(splitext_root(sprite_path))
        parts == split_once(file_name, "_")
    IN  IF file_name = T_only THEN Ok([action |-> "stand", direction |-> "south"])
        ELSE IF Len(parts) # 2 THEN Raise("ValueError")
        ELSE IF ~getattr(Direction, parts[2]).ok THEN Raise("AttributeError")
        ELSE IF ~getattr(Action, parts[1]).ok THEN Raise("AttributeError")
        ELSE Ok([action |-> getattr(Action, parts[1]).val,
                 direction |-> getattr(Direction, parts[2]).val])

\* The loop "for sprite_path in sprite_files.keys()" of Walkabout.__init__.
RECURSIVE Walkabout_loop(_, _)
Walkabout_loop(todo, self) ==
    IF todo = <<>> THEN Ok(self)
    ELSE LET sprite_path == Head(todo)
             named == Walkabout_parse(sprite_path)
         IN  IF ~named.ok THEN Raise(named.err)
             ELSE LET action == named.val.action
                      direction == named.val.direction
                  IN  Walkabout_loop(
                          Tail(todo),
                          [self EXCEPT
                              !.actions = Append(@, action),
                              !.directions = Append(@, direction),
                              !.animation = sprite_path,
                              !.animations =
                                  IF action \in DOMAIN @
                                  THEN [@ EXCEPT ![action] =
                                           dict_set(@, direction, sprite_path)]
                                  ELSE dict_set(@, action,
                                                dict_set(<<>>, direction,
                                                         sprite_path))])

\* An image that falls back on any animation of the grid.
Walkabout_image_AnyAnimation(animations, action, direction) ==
    IF action \in DOMAIN animations /\ direction \in DOMAIN animations[action]
    THEN Ok(animations[action][direction])
    ELSE LET a == CHOOSE a \in DOMAIN animations : TRUE
             d == CHOOSE d \in DOMAIN animations[a] : TRUE
         IN  Ok(animations[a][d])

\* self.image = self.animations[self.action][self.direction]
Walkabout_image(animations, action, direction) ==
    IF action \in DOMAIN animations /\ direction \in DOMAIN animations[action]
    THEN Ok(animations[action][direction])
    ELSE Raise("KeyError")

\* Walkabout.__init__ from "resource = Resource('walkabouts', directory)" on;
\* "order" is the order of the keys of the resource's files, and position
\* << >> is no position.
Walkabout_init(directory, resource, order, position, children) ==
    LET sprite_files == get_type(resource.val, Ext_gif)
        looped == Walkabout_loop(
                      SelectSeq(order, LAMBDA n : n \in DOMAIN sprite_files.items),
                      [animations |-> <<>>, actions |-> <<>>,
                       directions |-> <<>>, animation |-> <<>>])
        position_ == IF position = <<>> THEN <<0, 0>> ELSE position
    IN  IF ~resource.ok THEN Raise(resource.err)
        ELSE IF sprite_files = None \/ sprite_files.items = <<>>
        THEN Raise("BadWalkabout")
        ELSE IF ~looped.ok THEN Raise(looped.err)
        ELSE LET self == looped.val
                 size == largest_frame_size(resource.val[self.animation])
                 image == Walkabout_image(self.animations, "stand", "south")
             IN  IF ~image.ok THEN Raise(image.err)
                 ELSE Ok([directory |-> directory,
                          animations |-> self.animations,
                          actions |-> self.actions,
                          directions |-> self.directions,
                          resource |-> resource.val,
                          size |-> size,
                          rect |-> [topleft |-> position_, size |-> size],
                          topleft_float |-> position_,
                          action |-> "stand",
                          direction |-> "south",
                          child_walkabouts |-> children,
                          image |-> image.val])

\* Walkabout(directory, position, children), with arch at
\* resources/walkabouts/<directory>.
Walkabout(directory, arch, order, position, children) ==
    Walkabout_init(directory, Resource(arch, order), order, position, children)

\* Walkabout.__getitem__(key)
Walkabout_getitem(self, key) ==
    IF key \in DOMAIN self.animations THEN Ok(self.animations[key])
    ELSE Raise("KeyError")

\* The animation object a path of the grid refers to.
animation_at(self, sprite_path) == self.resource[sprite_path]

\* Walkabout.current_animation(): the grid's entry for the current action and
\* direction.
current_animation(self) ==
    IF self.action \in DOMAIN self.animations
       /\ self.direction \in DOMAIN self.animations[self.action]
    THEN Ok(self.animations[self.action][self.direction])
    ELSE Raise("KeyError")

\* What a call leaves in "last": one record per animation advanced, surface
\* drawn or animation converted, in the order the call did them.
\* An update event also names the frame the animation is left at.
Advanced(directory, sprite_path, time, updated) ==
    [op |-> "update", walkabout |-> directory, animation |-> sprite_path,
     time |-> time, index |-> updated.self.active_frame_index]

Drawn(directory, sprite_path, surface, position) ==
    [op |-> "blit", walkabout |-> directory, animation |-> sprite_path,
     surface |-> surface, position |-> position]

\* An update that advances every animation of the grid.
Walkabout_update_WholeGrid(self, time) ==
    LET active_animation == current_animation(self)
        updated == update(animation_at(self, active_animation.val), time)
        paths == UNION {{self.animations[a][d] : d \in DOMAIN self.animations[a]} :
                           a \in DOMAIN self.animations}
    IN  IF ~active_animation.ok
        THEN [self |-> self, err |-> active_animation.err, events |-> <<>>]
        ELSE [self |-> [self EXCEPT
                           !.resource =
                               [p \in DOMAIN @ |->
                                   IF p \in paths THEN update(@[p], time).self
                                   ELSE @[p]],
                           !.image = active_animation.val],
              err |-> updated.err,
              events |-> <<Advanced(self.directory, active_animation.val, time,
                                    updated)>>]

\* Walkabout.update(clock, screen, offset) with clock.get_time() = time.
Walkabout_update(self, time) ==
    LET active_animation == current_animation(self)
        updated == update(animation_at(self, active_animation.val), time)
    IN  IF ~active_animation.ok
        THEN [self |-> self, err |-> active_animation.err, events |-> <<>>]
        ELSE [self |-> [self EXCEPT
                           !.resource[active_animation.val] = updated.self,
                           !.image = IF updated.err = "none"
                                     THEN active_animation.val ELSE @],
              err |-> updated.err,
              events |-> <<Advanced(self.directory, active_animation.val, time,
                                    updated)>>]

\* A loop over child_walkabouts that draws each child before advancing it.
RECURSIVE blit_children_DrawsThenAdvances(_, _, _, _, _)
blit_children_DrawsThenAdvances(ws, todo, time, parent_anchor, events) ==
    IF todo = <<>> THEN [ws |-> ws, err |-> "none", events |-> events]
    ELSE LET child_walkabout == ws[Head(todo)]
             child_active_anim == current_animation(child_walkabout)
             animation == animation_at(child_walkabout, child_active_anim.val)
             child_frame_anchor ==
                 anchors_getitem(active_frame(animation).anchors, "head_anchor")
             child_position ==
                 as_tuple(Anchor_sub(parent_anchor, child_frame_anchor.val))
             updated == update(animation, time)
         IN  IF ~child_active_anim.ok
             THEN [ws |-> ws, err |-> child_active_anim.err, events |-> events]
             ELSE IF ~child_frame_anchor.ok
             THEN [ws |-> ws, err |-> child_frame_anchor.err, events |-> events]
             ELSE blit_children_DrawsThenAdvances(
                      [ws EXCEPT ![Head(todo)].resource[child_active_anim.val] =
                                     updated.self],
                      Tail(todo), time, parent_anchor,
                      events \o <<Drawn(Head(todo), child_active_anim.val,
                                        animation.image, child_position),
                                  Advanced(Head(todo), child_active_anim.val, time,
                                           updated)>>)

\* The loop over child_walkabouts in Walkabout.blit.
RECURSIVE blit_children(_, _, _, _, _)
blit_children(ws, todo, time, parent_anchor, events) ==
    IF todo = <<>> THEN [ws |-> ws, err |-> "none", events |-> events]
    ELSE LET child_walkabout == ws[Head(todo)]
             child_active_anim == current_animation(child_walkabout)
             updated == update(animation_at(child_walkabout, child_active_anim.val),
                               time)
             ws1 == [ws EXCEPT ![Head(todo)].resource[child_active_anim.val] =
                                   updated.self]
             events1 == Append(events, Advanced(Head(todo), child_active_anim.val,
                                                time, updated))
             child_active_frame == active_frame(updated.self)
             child_frame_anchor ==
                 anchors_getitem(child_active_frame.anchors, "head_anchor")
             child_position ==
                 as_tuple(Anchor_sub(parent_anchor, child_frame_anchor.val))
         IN  IF ~child_active_anim.ok
             THEN [ws |-> ws, err |-> child_active_anim.err, events |-> events]
             ELSE IF updated.err # "none"
             THEN [ws |-> ws1, err |-> updated.err, events |-> events1]
             ELSE IF ~child_frame_anchor.ok
             THEN [ws |-> ws1, err |-> child_frame_anchor.err, events |-> events1]
             ELSE blit_children(
                      ws1, Tail(todo), time, parent_anchor,
                      Append(events1,
                             Drawn(Head(todo), child_active_anim.val,
                                   updated.self.image, child_position)))

\* A parent anchor that leaves the frame's head_anchor out.
blit_parent_anchor_NoFrameAnchor(position_on_screen, frame_anchor) ==
    Anchor(position_on_screen[1], position_on_screen[2])

\* The parent_anchor of Walkabout.blit.
blit_parent_anchor(position_on_screen, frame_anchor) ==
    Anchor(position_on_screen[1] + frame_anchor.x,
           position_on_screen[2] + frame_anchor.y)

\* Walkabout.blit(clock, screen, offset) on the walkabout ws[directory].
blit(ws, directory, time, offset) ==
    LET self == ws[directory]
        position_on_screen == <<self.topleft_float[1] - offset[1],
                                self.topleft_float[2] - offset[2]>>
        updated == Walkabout_update(self, time)
        ws1 == [ws EXCEPT ![directory] = updated.self]
        sprite_path == current_animation(updated.self).val
        current_frame == active_frame(animation_at(updated.self, sprite_path))
        events1 == Append(updated.events,
                          Drawn(directory, sprite_path, current_frame.surface,
                                position_on_screen))
        frame_anchor == anchors_getitem(current_frame.anchors, "head_anchor")
    IN  IF updated.err # "none"
        THEN [ws |-> ws1, err |-> updated.err, events |-> updated.events]
        ELSE IF ~frame_anchor.ok
        THEN [ws |-> ws1, err |-> frame_anchor.err, events |-> events1]
        ELSE blit_children(ws1, self.child_walkabouts, time,
                           blit_parent_anchor(position_on_screen, frame_anchor.val),
                           events1)

\* The animations runtime_setup converts, in the order of its two loops.
runtime_setup_pairs(self) ==
    LET single == Cardinality(DOMAIN self.animations) = 1
        actions == IF single THEN <<"stand">> ELSE <<"walk", "stand">>
        directions == IF single THEN <<"south">>
                      ELSE <<"north", "south", "east", "west">>
    IN  [i \in 1..(Len(actions) * Len(directions)) |->
            [action |-> actions[((i - 1) \div Len(directions)) + 1],
             direction |-> directions[((i - 1) % Len(directions)) + 1]]]

RECURSIVE runtime_setup_loop(_, _, _)
runtime_setup_loop(self, todo, events) ==
    IF todo = <<>> THEN [err |-> "none", events |-> events]
    ELSE LET action == Head(todo).action
             direction == Head(todo).direction
         IN  IF action \notin DOMAIN self.animations
                \/ direction \notin DOMAIN self.animations[action]
             THEN [err |-> "KeyError", events |-> events]
             ELSE runtime_setup_loop(
                      self, Tail(todo),
                      Append(events,
                             [op |-> "convert_alpha",
                              walkabout |-> self.directory,
                              animation |-> self.animations[action][direction]]))

\* Walkabout.runtime_setup() on the walkabout ws[directory]; the second
\* operator is its loop over child_walkabouts.
RECURSIVE runtime_setup(_, _, _)
RECURSIVE runtime_setup_children(_, _, _)
runtime_setup(ws, directory, events) ==
    LET self == ws[directory]
        own == runtime_setup_loop(self, runtime_setup_pairs(self), events)
    IN  IF own.err # "none" THEN own
        ELSE runtime_setup_children(ws, self.child_walkabouts, own.events)

runtime_setup_children(ws, todo, events) ==
    IF todo = <<>> THEN [err |-> "none", events |-> events]
    ELSE LET done == runtime_setup(ws, Head(todo), events)
         IN  IF done.err # "none" THEN done
             ELSE runtime_setup_children(ws, Tail(todo), done.events)

-----------------------------------------------------------------------------
(* Walkabouts: the calls a program makes on them.  A call that raises leaves *)
(* its exception in "error" and the program stops there.                     *)

Positions == {<<>>, <<5, 5>>}

Offsets == {<<0, 0>>, <<1, 2>>}

Called(name, directory, events) ==
    [name |-> name, self |-> directory, events |-> events, calls |-> last.calls]

\* The program keeps the walkabout a constructor call returns, or stops at the
\* exception it raises.
Made(directory, made) ==
    /\ walkabouts' = (IF made.ok THEN dict_set(walkabouts, directory, made.val)
                      ELSE walkabouts)
    /\ error' = (IF made.ok THEN "none" ELSE made.err)

\* Walkabout(directory, position, children), with arch at
\* resources/walkabouts/<directory>.
NewWalkabout(directory, arch, order, position, children) ==
    /\ error = "none"
    /\ directory \notin DOMAIN walkabouts
    /\ Made(directory, Walkabout(directory, arch, order, position, children))
    /\ last' = Called("__init__", directory,
                      SelectSeq(order, LAMBDA n : splitext_ext(n) = Ext_gif))
    /\ archive' = arch
    /\ UNCHANGED <<source, sprite, deltas, files, visited, phase>>

\* walkabout.runtime_setup()
WalkaboutSetup(directory) ==
    /\ error = "none"
    /\ directory \in DOMAIN walkabouts
    /\ last.name # "runtime_setup"
    /\ LET done == runtime_setup(walkabouts, directory, <<>>)
       IN  /\ error' = done.err
           /\ last' = Called("runtime_setup", directory, done.events)
    /\ UNCHANGED <<source, sprite, deltas, resVars, walkabouts>>

\* The owner of the walkabout sets its action and direction.
Face(directory, action, direction) ==
    /\ error = "none"
    /\ directory \in DOMAIN walkabouts
    /\ <<action, direction>> #
           <<walkabouts[directory].action, walkabouts[directory].direction>>
    /\ walkabouts' = [walkabouts EXCEPT ![directory].action = action,
                                        ![directory].direction = direction]
    /\ last' = Called("face", directory, <<>>)
    /\ UNCHANGED <<source, sprite, error, deltas, resVars>>

\* walkabout.update(clock, screen, offset)
WalkaboutUpdate(directory, time) ==
    /\ error = "none"
    /\ directory \in DOMAIN walkabouts
    /\ last.calls < MaxUpdates
    /\ LET updated == Walkabout_update(walkabouts[directory], time)
       IN  /\ walkabouts' = [walkabouts EXCEPT ![directory] = updated.self]
           /\ error' = updated.err
           /\ last' = [name |-> "update", self |-> directory,
                       events |-> updated.events, calls |-> last.calls + 1]
    /\ UNCHANGED <<source, sprite, deltas, resVars>>

\* walkabout.blit(clock, screen, offset)
WalkaboutBlit(directory, time, offset) ==
    /\ error = "none"
    /\ directory \in DOMAIN walkabouts
    /\ last.calls < MaxUpdates
    /\ LET drawn == blit(walkabouts, directory, time, offset)
       IN  /\ walkabouts' = drawn.ws
           /\ error' = drawn.err
           /\ last' = [name |-> "blit", self |-> directory, time |-> time,
                       offset |-> offset,
                       events |-> drawn.events, calls |-> last.calls + 1]
    /\ UNCHANGED <<source, sprite, deltas, resVars>>

-----------------------------------------------------------------------------
(* One walkabout built from whatever is at resources/walkabouts/debug.       *)

MaxSprites == 4

\* The file names of the sprites.
GifNames ==
    [walk_north |-> Action.walk \o <<"_">> \o Direction.north \o Ext_gif,
     walk_south |-> Action.walk \o <<"_">> \o Direction.south \o Ext_gif,
     stand_north |-> Action.stand \o <<"_">> \o Direction.north \o Ext_gif,
     stand_south |-> Action.stand \o <<"_">> \o Direction.south \o Ext_gif,
     only |-> T_only \o Ext_gif,
     d_only |-> <<"d", "/">> \o T_only \o Ext_gif,
     stand_up |-> Action.stand \o <<"_", "u", "p">> \o Ext_gif,
     fly_south |-> <<"f", "l", "y", "_">> \o Direction.south \o Ext_gif,
     hat |-> <<"h", "a", "t">> \o Ext_gif]

\* One GIF per name, each of its own size.
GridCandidates ==
    {<<GifNames.walk_north, Bytes(PilGif(<<6, 8>>, <<1, 2>>))>>,
     <<GifNames.walk_south, Bytes(PilGif(<<5, 5>>, <<2>>))>>,
     <<GifNames.stand_north, Bytes(PilGif(<<4, 4>>, <<1>>))>>,
     <<GifNames.stand_south, Bytes(PilGif(<<3, 3>>, <<1, 1>>))>>,
     <<GifNames.only, Bytes(PilGif(<<2, 3>>, <<2>>))>>,
     <<GifNames.d_only, Bytes(PilGif(<<7, 7>>, <<1>>))>>,
     <<GifNames.stand_up, Gif1>>,
     <<GifNames.fly_south, Gif1>>,
     <<GifNames.hat, Gif1>>,
     <<N_n_txt, Bytes(TextData(<<JunkLine>>))>>}

ContainersUpTo(kind, candidates, n) ==
    {[container |-> kind, entries |-> f] :
        f \in UNION {EntryMaps(candidates, S) :
                        S \in {S \in SUBSET {c[1] : c \in candidates} :
                                  Cardinality(S) <= n}}}

GridArchives ==
    ContainersUpTo("zip", GridCandidates, MaxSprites)
    \cup ContainersUpTo("dir", {c \in GridCandidates : find(c[1], "/", 1) = 0},
                        MaxSprites)
    \cup {NoArchive}

InitWalkabout ==
    /\ archive \in GridArchives
    /\ files = <<>>
    /\ visited = <<>>
    /\ phase = "idle"
    /\ source = [kind |-> "none"]
    /\ sprite = None
    /\ error = "none"
    /\ deltas = <<>>
    /\ WalkIdle

ConstructDebug ==
    /\ last.name = "none"
    /\ \E order \in Perms(ResourceKeys(archive)), position \in Positions :
           NewWalkabout("debug", archive, order, position, <<>>)

SetupDebug == WalkaboutSetup("debug")

NextWalkabout == ConstructDebug \/ SetupDebug

SpecWalkabout == InitWalkabout /\ [][NextWalkabout]_vars

-----------------------------------------------------------------------------
(* Claims about Walkabout.__init__. *)

Debug == walkabouts["debug"]

Built == "debug" \in DOMAIN walkabouts

\* The .gif assets of the resource at resources/walkabouts/debug.
GifAssets == {n \in ResourceKeys(archive) : splitext_ext(n) = Ext_gif}

\* The sprite decoded from the file n of the resource.
DecodedFrom(n) == prepare(Resource_read(archive).val, n).val

\* The entries of a grid.
GridEntries(w) ==
    UNION {{<<a, d>> : d \in DOMAIN w.animations[a]} : a \in DOMAIN w.animations}

\* The (action, direction) a file name stands for: <action>_<direction>.gif
\* with both in the enumerations, or only.gif for (stand, south).
PairsNamed(n) ==
    LET bare == basename(splitext_root(n))
    IN  {p \in (DOMAIN Action) \X (DOMAIN Direction) :
            bare = Action[p[1]] \o <<"_">> \o Direction[p[2]]}
        \cup (IF bare = T_only THEN {<<"stand", "south">>} ELSE {})

\* The position at which the constructor visited the file n.
VisitOf(n) == CHOOSE i \in 1..Len(last.events) : last.events[i] = n

\* C11 as stated: the grid of a constructed Walkabout has exactly one entry per
\* .gif asset, the entry a file names holds the sprite decoded from that file,
\* and only.gif is at (stand, south).
C11_OneEntryPerGif ==
    Built =>
        /\ Cardinality(GridEntries(Debug)) = Cardinality(GifAssets)
        /\ \A n \in GifAssets : \A p \in PairsNamed(n) :
               /\ p \in GridEntries(Debug)
               /\ Debug.animations[p[1]][p[2]] = n
               /\ animation_at(Debug, n) = DecodedFrom(n)

\* C11, amended: the grid of a constructed Walkabout has exactly one entry per
\* (action, direction) that some .gif asset names; the entry holds the sprite
\* decoded from a file naming it, the one visited last when several do; when
\* no two assets name the same pair there is exactly one entry per asset.
C11_OneEntryPerNamedPair ==
    (Built /\ last.name = "__init__") =>
        /\ GridEntries(Debug) = UNION {PairsNamed(n) : n \in GifAssets}
        /\ \A p \in GridEntries(Debug) :
               LET n == Debug.animations[p[1]][p[2]]
               IN  /\ n \in GifAssets
                   /\ p \in PairsNamed(n)
                   /\ animation_at(Debug, n) = DecodedFrom(n)
                   /\ \A m \in GifAssets :
                          p \in PairsNamed(m) => VisitOf(m) <= VisitOf(n)
        /\ (\A n, m \in GifAssets : n # m => PairsNamed(n) \cap PairsNamed(m) = {})
               => Cardinality(GridEntries(Debug)) = Cardinality(GifAssets)

C11_Witness ==
    /\ Built
    /\ last.name = "__init__"
    /\ GifAssets = {GifNames.only, GifNames.d_only, GifNames.walk_north}
    /\ Debug.animations["stand"]["south"] = GifNames.only
    /\ Debug.animations["walk"]["north"] = GifNames.walk_north
    /\ last.events[3] = GifNames.only

Constructing == last.name = "__init__"

\* A file name that is neither "only" nor <action>_<direction>.
BadlyNamed(n) == PairsNamed(n) = {}

Underscored(n) == find(basename(splitext_root(n)), "_", 1) # 0

\* C12 as stated: construction from a resource with no .gif asset, or with a
\* .gif asset that is not named only or <action>_<direction>, raises
\* BadWalkabout and yields no Walkabout.
C12_BadWalkaboutInBothCases ==
    (/\ Constructing
     /\ Resource_read(archive).ok
     /\ GifAssets = {} \/ \E n \in GifAssets : BadlyNamed(n))
    => error = "BadWalkabout" /\ ~Built

\* C12, amended: construction from a resource with no .gif asset raises
\* BadWalkabout; with a .gif asset that is not named only or
\* <action>_<direction> it fails at the first such asset it visits, with
\* ValueError when the name has no underscore and with AttributeError when a
\* token is not in its enumeration; no Walkabout is produced in either case.
C12_FailureByCase ==
    (Constructing /\ Resource_read(archive).ok) =>
        /\ GifAssets = {} => error = "BadWalkabout" /\ ~Built
        /\ (\E n \in GifAssets : BadlyNamed(n)) =>
               LET first == CHOOSE n \in GifAssets :
                                /\ BadlyNamed(n)
                                /\ \A m \in GifAssets :
                                       BadlyNamed(m) => VisitOf(n) <= VisitOf(m)
               IN  /\ ~Built
                   /\ error = (IF Underscored(first) THEN "AttributeError"
                               ELSE "ValueError")

C12_Witness ==
    /\ Constructing
    /\ GifAssets = {GifNames.hat, GifNames.stand_up, GifNames.stand_south}
    /\ last.events = <<GifNames.stand_south, GifNames.hat, GifNames.stand_up>>
    /\ error = "ValueError"

Area(size) == size[1] * size[2]

\* The frames of the animations of a grid.
GridFrames(w) ==
    UNION {{animation_at(w, w.animations[p[1]][p[2]]).frames[i] :
               i \in 1..Len(animation_at(w, w.animations[p[1]][p[2]]).frames)} :
           p \in GridEntries(w)}

\* C13: the size of a constructed Walkabout is the size of a frame of one of
\* its animations, and no frame of any animation of the grid has a larger area.
C13_SizeIsLargestFrame ==
    Built =>
        /\ \A frame \in GridFrames(Debug) :
               Area(frame.surface.size) <= Area(Debug.size)
        /\ \E frame \in GridFrames(Debug) : frame.surface.size = Debug.size

\* The animations a runtime_setup call converted, by walkabout.
ConvertedBy(directory) ==
    {last.events[i].animation :
        i \in {i \in 1..Len(last.events) :
                  /\ last.events[i].op = "convert_alpha"
                  /\ last.events[i].walkabout = directory}}

\* C16: a runtime_setup call on a constructed Walkabout ends without error; it
\* converts only the (stand, south) animation if the grid holds exactly one
\* animation, and otherwise every animation the grid has for walk and stand in
\* the four directions.
C16_SetupCompletes ==
    (last.name = "runtime_setup" /\ last.self = "debug") =>
        /\ error = "none"
        /\ ConvertedBy("debug") =
               IF Cardinality(GridEntries(Debug)) = 1
               THEN {Debug.animations["stand"]["south"]}
               ELSE {Debug.animations[p[1]][p[2]] :
                        p \in GridEntries(Debug)
                              \cap ({"walk", "stand"}
                                    \X {"north", "south", "east", "west"})}

-----------------------------------------------------------------------------
(* Walkabouts with children: a body and its accessories (a hat, a cap and a  *)
(* bow), each in its own directory of resources/walkabouts.  The accessories *)
(* are built first, as in the example of the class: hat = Walkabout('hat'),  *)
(* then Walkabout('debug', position=(44, 55), children=[hat]).               *)

AnchorText(label, first, second) ==
    Bytes(TextData(<<SectionLine(label), OptionLine("0", first),
                     OptionLine("1", second)>>))

ActorDisk ==
    [body |->
        [container |-> "dir",
         entries |->
             (GifNames.stand_south :> Bytes(PilGif(<<6, 8>>, <<1, 2>>)))
             @@ (SidecarOf(GifNames.stand_south) :>
                    AnchorText("head_anchor", <<"1", "0", ",", "2", "0">>,
                               <<"1", "1", ",", "2", "1">>))
             @@ (GifNames.walk_south :> Bytes(PilGif(<<6, 8>>, <<2, 1>>)))],
     hat |->
        [container |-> "dir",
         entries |->
             (GifNames.only :> Bytes(PilGif(<<4, 2>>, <<2, 1>>)))
             @@ (SidecarOf(GifNames.only) :>
                    AnchorText("head_anchor", <<"2", ",", "3">>,
                               <<"3", ",", "4">>))],
     cap |->
        [container |-> "dir",
         entries |->
             (GifNames.only :> Bytes(PilGif(<<3, 2>>, <<1, 2>>)))
             @@ (SidecarOf(GifNames.only) :>
                    AnchorText("foot_anchor", <<"0", ",", "1">>,
                               <<"1", ",", "1">>))],
     bow |->
        [container |-> "dir",
         entries |-> (GifNames.only :> Bytes(PilGif(<<2, 2>>, <<1, 1>>)))]]

\* The lists of children a new walkabout may be given: none, one or two of the
\* walkabouts built before it; the same one may be listed twice.
ChildLists(built) ==
    {<<>>} \cup {<<a>> : a \in built} \cup {<<a, b>> : a \in built, b \in built}

InitActors ==
    /\ ResourceIdle
    /\ source = [kind |-> "none"]
    /\ sprite = None
    /\ error = "none"
    /\ deltas = <<>>
    /\ WalkIdle

\* hat = Walkabout('hat')
ConstructAccessory ==
    /\ "body" \notin DOMAIN walkabouts
    /\ \E directory \in DOMAIN ActorDisk \ {"body"} :
           \E order \in Perms(ResourceKeys(ActorDisk[directory])) :
               NewWalkabout(directory, ActorDisk[directory], order, <<>>, <<>>)

\* Walkabout('body', position=..., children=[hat, ...])
ConstructBody ==
    \E order \in Perms(ResourceKeys(ActorDisk.body)),
       position \in Positions \ {<<>>},
       children \in ChildLists(DOMAIN walkabouts) :
        NewWalkabout("body", ActorDisk.body, order, position, children)

\* The calls of the scene on the walkabout of its actor.
FaceBody ==
    \E action \in DOMAIN Action, direction \in {"south", "north"} :
        Face("body", action, direction)

UpdateBody == \E time \in 0..MaxDelta : WalkaboutUpdate("body", time)

BlitBody ==
    \E time \in 0..MaxDelta, offset \in Offsets : WalkaboutBlit("body", time, offset)

SetupBody == last.calls = 0 /\ WalkaboutSetup("body")

NextActors ==
    \/ ConstructAccessory
    \/ ConstructBody
    \/ FaceBody
    \/ UpdateBody
    \/ BlitBody
    \/ SetupBody

SpecActors == InitActors /\ [][NextActors]_vars

-----------------------------------------------------------------------------
(* Claims about Walkabout.update and Walkabout.blit. *)

BlitCalled == last.name = "blit"

\* The walkabout the last call was made on, and the walkabouts a blit call goes
\* through: itself, then its children in the order of child_walkabouts.
Self == walkabouts[last.self]

Chain == <<last.self>> \o Self.child_walkabouts

\* Where the blit call draws its own frame.
ScreenPosition ==
    <<Self.topleft_float[1] - last.offset[1], Self.topleft_float[2] - last.offset[2]>>

\* The frame an update event left its animation at (the frames of an animation
\* never change), and that frame's head anchor.
FrameOf(event) ==
    PyGet(animation_at(walkabouts[event.walkabout], event.animation).frames,
          event.index)

HeadAnchorOf(event) == anchors_getitem(FrameOf(event).anchors, "head_anchor").val

\* C14: every child a blit call draws is drawn at (the walkabout's position on
\* screen + the head anchor of the walkabout's frame) - the head anchor of the
\* child's frame, the frames being those the call's own advance left current.
C14_ChildAtAnchorDifference ==
    BlitCalled =>
        \A i \in 3..Len(last.events) :
            last.events[i].op = "blit" =>
                last.events[i].position =
                    <<ScreenPosition[1] + HeadAnchorOf(last.events[1]).x
                          - HeadAnchorOf(last.events[i - 1]).x,
                      ScreenPosition[2] + HeadAnchorOf(last.events[1]).y
                          - HeadAnchorOf(last.events[i - 1]).y>>

C14_Witness ==
    /\ BlitCalled
    /\ error = "none"
    /\ ScreenPosition = <<5, 5>>
    /\ as_tuple(HeadAnchorOf(last.events[1])) = <<10, 20>>
    /\ \E i \in 3..Len(last.events) :
           /\ last.events[i].op = "blit"
           /\ last.events[i].walkabout = "hat"
           /\ as_tuple(HeadAnchorOf(last.events[i - 1])) = <<2, 3>>
           /\ last.events[i].position = <<13, 22>>

\* The current frame of a walkabout, and whether it has no head_anchor entry.
CurrentFrame(w) == active_frame(animation_at(w, current_animation(w).val))

LacksHeadAnchor(directory) ==
    ~anchors_getitem(CurrentFrame(walkabouts[directory]).anchors, "head_anchor").ok

\* A blit call on a walkabout with a current animation, the current frame of
\* the walkabout or of one of its children having no head_anchor entry.
BlitWithoutHeadAnchor ==
    /\ BlitCalled
    /\ current_animation(Self).ok
    /\ \E i \in 1..Len(Chain) : LacksHeadAnchor(Chain[i])

\* The first of the walkabout and its children whose frame has no head_anchor.
FirstLacking ==
    CHOOSE i \in 1..Len(Chain) :
        LacksHeadAnchor(Chain[i]) /\ \A j \in 1..(i - 1) : ~LacksHeadAnchor(Chain[j])

DrawnBy(events) == {i \in 1..Len(events) : events[i].op = "blit"}

\* C15 as stated: a blit call fails with a not-found error (KeyError) whenever
\* the current frame of the walkabout or of one of its children has no
\* head_anchor entry, frames without any anchors included.
C15_NotFoundWithoutHeadAnchor ==
    BlitWithoutHeadAnchor => error = "KeyError"

\* C15, amended: such a blit call fails at the first frame (the walkabout's,
\* then its children's in order) that has no head_anchor entry, with TypeError
\* when the frame has no anchors at all and with KeyError when its anchors
\* have no head_anchor; the walkabout's own frame has been drawn by then, and
\* so has every child before the failing one.
C15_FailsByAnchorsCase ==
    BlitWithoutHeadAnchor =>
        /\ error = (IF CurrentFrame(walkabouts[Chain[FirstLacking]]).anchors = None
                    THEN "TypeError" ELSE "KeyError")
        /\ Cardinality(DrawnBy(last.events)) =
               IF FirstLacking = 1 THEN 1 ELSE FirstLacking - 1

C15_Witness ==
    /\ BlitCalled
    /\ Self.child_walkabouts = <<"hat", "bow">>
    /\ error = "TypeError"
    /\ Cardinality(DrawnBy(last.events)) = 2

\* The events a blit call makes for the walkabouts it goes through: for the
\* k-th of them an update of its current animation by the call's clock delta,
\* then a draw of that animation.
InChainOrder(events) ==
    \A i \in 1..Len(events) :
        LET directory == Chain[(i + 1) \div 2]
        IN  /\ events[i].walkabout = directory
            /\ events[i].animation = current_animation(walkabouts[directory]).val
            /\ IF i % 2 = 1
               THEN events[i].op = "update" /\ events[i].time = last.time
               ELSE events[i].op = "blit"

UpdatesOf(directory) ==
    {i \in 1..Len(last.events) :
        last.events[i].op = "update" /\ last.events[i].walkabout = directory}

ListedAt(directory) == {i \in 1..Len(Chain) : Chain[i] = directory}

Cursor(animation) ==
    <<animation.animation_position, animation.active_frame_index, animation.image>>

\* The animations of the walkabouts: (directory, path) for every sprite a
\* resource holds.
Animations ==
    UNION {{<<directory, path>> :
               path \in {p \in DOMAIN walkabouts[directory].resource :
                            splitext_ext(p) = Ext_gif}} :
           directory \in DOMAIN walkabouts}

\* A step that is a call of Walkabout.update, and the animation it selects.
UpdateStep == last'.name = "update" /\ last'.calls = last.calls + 1

\* C19: a Walkabout.update call changes the cursor of the animation its
\* walkabout's action and direction select, by one update of the call's clock
\* delta, and of no other animation of any walkabout; setting the action or
\* direction of a walkabout changes no cursor.
C19_OnlySelectedCursorChanges ==
    [][/\ UpdateStep =>
              \A a \in Animations :
                  LET before == walkabouts[a[1]].resource[a[2]]
                      after == walkabouts'[a[1]].resource[a[2]]
                      selected == current_animation(walkabouts[last'.self])
                  IN  IF a[1] = last'.self /\ selected.ok /\ a[2] = selected.val
                      THEN after = update(before, last'.events[1].time).self
                      ELSE Cursor(after) = Cursor(before)
       /\ last'.name = "face" =>
              \A a \in Animations :
                  walkabouts'[a[1]].resource[a[2]] = walkabouts[a[1]].resource[a[2]]
      ]_vars

\* After updates of both of the body's animations: the one not selected keeps
\* the cursor it had.
C19_Witness ==
    /\ last.name = "update"
    /\ error = "none"
    /\ Self.action = "walk"
    /\ Self.child_walkabouts # <<>>
    /\ animation_at(Self, GifNames.walk_south).animation_position > 0
    /\ animation_at(Self, GifNames.stand_south).animation_position > 0

-----------------------------------------------------------------------------
(* Claims about the frame AnimatedSprite.update selects. *)

\* C20: a sprite with total_duration > 0, after any updates with non-negative
\* deltas, has its active_frame_index within 0..len(frames)-1 and at the
\* smallest index i with animation_position <= frames[i].end_time; no update
\* has failed, so the advance loop never indexed past the last frame.
C20_IndexIsFirstFrameNotPassed ==
    (sprite # None /\ sprite.total_duration > 0) =>
        /\ error = "none"
        /\ sprite.active_frame_index \in 0..(Len(sprite.frames) - 1)
        /\ sprite.active_frame_index =
               FirstFrameAt(sprite.frames, sprite.animation_position)

\* After an update that leaves the position exactly on the end_time of a frame
\* other than the first, in a sprite with a frame of duration 0.
C20_Witness ==
    /\ Live
    /\ deltas # <<>>
    /\ sprite.total_duration > 0
    /\ \E i \in 1..Len(sprite.frames) : sprite.frames[i].duration = 0
    /\ sprite.active_frame_index > 0
    /\ sprite.animation_position = active_frame(sprite).end_time

-----------------------------------------------------------------------------
(* palette_cycle.  pygame's surfaces are objects: "heap" holds the pixels of *)
(* each of them (a function from coordinates to colours), a Surface value    *)
(* names one by its id, and copy() makes a new one.                          *)

MaxColors == 3

\* The duration palette_cycle gives each frame.
PaletteFrameDuration == 250

\* itertools.product(range(0, width), range(0, height)), in its order.
product(width, height) ==
    [k \in 1..(width * height) |-> <<(k - 1) \div height, (k - 1) % height>>]

\* surface.copy(): a new object with the same pixels.
Surface_copy(heap, surface) ==
    [heap |-> Append(heap, heap[surface.id]),
     surface |-> Surface(Len(heap) + 1, surface.size)]

\* The first loop of palette_cycle: the colours in the order they are first
\* met (seen_colors holds the same colours as the list).
RECURSIVE ordered_color_list(_, _, _)
ordered_color_list(pixels, todo, ordered) ==
    IF todo = <<>> THEN ordered
    ELSE LET color == pixels[Head(todo)]
         IN  ordered_color_list(
                 pixels, Tail(todo),
                 IF \E i \in 1..Len(ordered) : ordered[i] = color THEN ordered
                 ELSE Append(ordered, color))

\* A rotation to the left: the first element moves to the back.
deque_rotate_Left(deque) ==
    IF deque = <<>> THEN deque ELSE Tail(deque) \o <<Head(deque)>>

\* deque.rotate(1): the last element moves to the front.
deque_rotate(deque) ==
    IF deque = <<>> THEN deque
    ELSE <<deque[Len(deque)]>> \o SubSeq(deque, 1, Len(deque) - 1)

\* dict(zip(old_color_list, new_color_list))
color_translations(old_color_list, new_color_list) ==
    [color \in {old_color_list[i] : i \in 1..Len(old_color_list)} |->
        new_color_list[CHOOSE i \in 1..Len(old_color_list) :
                           /\ old_color_list[i] = color
                           /\ \A j \in (i + 1)..Len(old_color_list) :
                                  old_color_list[j] # color]]

\* The inner loop of palette_cycle: set_at(coordinate, translation of get_at).
RECURSIVE palette_cycle_replace(_, _, _)
palette_cycle_replace(pixels, todo, translations) ==
    IF todo = <<>> THEN pixels
    ELSE palette_cycle_replace([pixels EXCEPT ![Head(todo)] = translations[@]],
                               Tail(todo), translations)

\* The loop over rotation_i, with the rotations still to make.
RECURSIVE palette_cycle_loop(_, _, _, _, _)
palette_cycle_loop(heap, new_surface, old_color_list, rotations, frames) ==
    IF rotations = 0 THEN [heap |-> heap, frames |-> frames]
    ELSE LET copied == Surface_copy(heap, new_surface)
             new_color_list == deque_rotate(old_color_list)
             replaced ==
                 [copied.heap EXCEPT ![copied.surface.id] =
                     palette_cycle_replace(
                         @, product(new_surface.size[1], new_surface.size[2]),
                         color_translations(old_color_list, new_color_list))]
             frame == Surface_copy(replaced, copied.surface)
         IN  palette_cycle_loop(
                 frame.heap, copied.surface, new_color_list, rotations - 1,
                 Append(frames, <<frame.surface, PaletteFrameDuration>>))

\* palette_cycle(surface): the sprite it returns (or the exception), and the
\* surfaces as the call leaves them.
palette_cycle(heap, surface) ==
    LET original_surface == Surface_copy(heap, surface)
        ordered == ordered_color_list(heap[surface.id],
                                      product(surface.size[1], surface.size[2]),
                                      <<>>)
        new_surface == Surface_copy(original_surface.heap, surface)
        looped == palette_cycle_loop(new_surface.heap, new_surface.surface,
                                     ordered, Len(ordered), <<>>)
    IN  [heap |-> looped.heap,
         sprite |-> from_surface_duration_list(looped.frames)]

\* The surfaces palette_cycle is given: every colouring of a few sizes, sizes
\* without pixels included.
PaletteSources ==
    UNION {{[kind |-> "surface", surface |-> Surface(1, size), heap |-> <<pixels>>] :
               pixels \in [((0..(size[1] - 1)) \X (0..(size[2] - 1))) -> 1..MaxColors]} :
           size \in {<<0, 0>>, <<0, 2>>, <<1, 0>>, <<1, 1>>, <<1, 2>>, <<2, 1>>,
                     <<3, 1>>, <<2, 2>>}}

InitPalette ==
    /\ source \in PaletteSources
    /\ sprite = None
    /\ error = "none"
    /\ deltas = <<>>
    /\ ResourceIdle
    /\ WalkIdle

\* sprite = palette_cycle(surface)
CyclePalette ==
    /\ sprite = None /\ error = "none"
    /\ source.kind = "surface"
    /\ LET cycled == palette_cycle(source.heap, source.surface)
       IN  /\ source' = [source EXCEPT !.heap = cycled.heap]
           /\ sprite' = (IF cycled.sprite.ok THEN cycled.sprite.val ELSE None)
           /\ error' = (IF cycled.sprite.ok THEN "none" ELSE cycled.sprite.err)
    /\ UNCHANGED <<deltas, resVars, walkVars>>

SpecPalette == InitPalette /\ [][CyclePalette]_vars

-----------------------------------------------------------------------------
(* Claims about palette_cycle. *)

\* The pixels of the surface palette_cycle is given.
GivenPixels == source.heap[source.surface.id]

\* The position at which a colour is first met, going through the x values and,
\* for each, through the y values.
FirstMet(pixels, size, color) ==
    CHOOSE k \in 1..(size[1] * size[2]) :
        /\ pixels[product(size[1], size[2])[k]] = color
        /\ \A j \in 1..(k - 1) : pixels[product(size[1], size[2])[j]] # color

\* The palette of a surface: its colours, each once, in order of first
\* appearance.
PaletteOf(pixels, size) ==
    LET colors == {pixels[c] : c \in DOMAIN pixels}
    IN  CHOOSE palette \in [1..Cardinality(colors) -> colors] :
            \A i, j \in 1..Cardinality(colors) :
                i < j => FirstMet(pixels, size, palette[i])
                             < FirstMet(pixels, size, palette[j])

\* The cyclic neighbour a colour is replaced by: the one before it in the
\* palette, the last one for the first.
CyclicNeighbour(palette, color) ==
    LET i == CHOOSE i \in 1..Len(palette) : palette[i] = color
    IN  palette[((i + Len(palette) - 2) % Len(palette)) + 1]

RECURSIVE Replaced(_, _, _)
Replaced(palette, pixels, steps) ==
    IF steps = 0 THEN pixels
    ELSE [c \in DOMAIN pixels |->
             CyclicNeighbour(palette, Replaced(palette, pixels, steps - 1)[c])]

CycleStep == sprite = None /\ source.kind = "surface" /\ source' # source

\* What a palette_cycle call returns for a surface with at least one pixel,
\* and leaves of the surface.
CycledAsClaimed ==
    LET palette == PaletteOf(GivenPixels, source.surface.size)
        N == Len(palette)
    IN  /\ error' = "none"
        /\ sprite' # None
        /\ Len(sprite'.frames) = N
        /\ sprite'.total_duration = 250 * N
        /\ \A k \in 1..N :
               /\ sprite'.frames[k].duration = 250
               /\ sprite'.frames[k].surface.id # source.surface.id
               /\ source'.heap[sprite'.frames[k].surface.id] =
                      Replaced(palette, GivenPixels, k)
               /\ \A j \in 1..(k - 1) :
                      sprite'.frames[j].surface.id # sprite'.frames[k].surface.id
        /\ source'.heap[sprite'.frames[N].surface.id] = GivenPixels
        /\ source'.heap[source.surface.id] = GivenPixels

\* C17 as stated: palette_cycle on a surface with N distinct colours returns a
\* sprite of N frames of 250 ms, frame k being the surface with every colour
\* replaced k + 1 times by its cyclic neighbour in the palette, the last
\* frame having the colours of the surface, which is left as it was.
C17_CycleOfAnySurface == [][CycleStep => CycledAsClaimed]_vars

\* C17, amended: the same for a surface with at least one pixel; for a surface
\* without pixels (N = 0) palette_cycle raises IndexError and leaves the
\* surface as it was.
C17_CycleOfSurfaceWithPixels ==
    [][CycleStep =>
          IF DOMAIN GivenPixels # {} THEN CycledAsClaimed
          ELSE /\ error' = "IndexError"
               /\ sprite' = None
               /\ source'.heap[source.surface.id] = GivenPixels
      ]_vars

\* The 2x1 surface of two colours: two frames, the first with the colours
\* exchanged, the second with those of the surface.
C17_Witness ==
    /\ sprite # None
    /\ source.kind = "surface"
    /\ source.surface.size = <<2, 1>>
    /\ GivenPixels[<<0, 0>>] # GivenPixels[<<1, 0>>]
    /\ Len(sprite.frames) = 2
    /\ sprite.total_duration = 500
    /\ source.heap[sprite.frames[1].surface.id][<<0, 0>>] = GivenPixels[<<1, 0>>]
    /\ source.heap[sprite.frames[2].surface.id] = GivenPixels

-----------------------------------------------------------------------------
(* Claims about the surface Walkabout.blit draws. *)

\* C21: in every blit call, each surface drawn, for the walkabout and for every
\* child, is the surface of the frame its animation was left at by the call's
\* advance: frames[active_frame_index].surface, the frame whose head_anchor
\* positions it.
C21_BlittedSurfaceIsActiveFrame ==
    BlitCalled =>
        \A i \in DrawnBy(last.events) :
            last.events[i].surface = FrameOf(last.events[i - 1]).surface

\* The part of C21 about the walkabout's own frame, which holds.
C21_OwnSurfaceIsActiveFrame ==
    (BlitCalled /\ Len(last.events) >= 2) =>
        last.events[2].surface = FrameOf(last.events[1]).surface

-----------------------------------------------------------------------------
(* Claims about the state a Walkabout starts in. *)

StandSouth == <<"stand", "south">>

\* C22: a constructed Walkabout has action stand and direction south and an
\* animation at (stand, south), so current_animation() is defined and is its
\* image; construction from a resource whose .gif assets are all named
\* <action>_<direction> or only, none of them naming (stand, south), fails
\* and yields no Walkabout.
C22_StartsStandingSouth ==
    /\ Built =>
           /\ Debug.action = "stand"
           /\ Debug.direction = "south"
           /\ StandSouth \in GridEntries(Debug)
           /\ current_animation(Debug).ok
           /\ current_animation(Debug).val \in GifAssets
           /\ Debug.image = current_animation(Debug).val
    /\ (/\ Constructing
        /\ GifAssets # {}
        /\ \A n \in GifAssets : ~BadlyNamed(n) /\ StandSouth \notin PairsNamed(n))
       => ~Built /\ error # "none"

\* Construction from a resource that holds walk_north.gif and no other gif.
C22_Witness ==
    /\ Constructing
    /\ GifAssets = {GifNames.walk_north}
    /\ ~Built
    /\ error = "KeyError"

=============================================================================
